---- MODULE Spec2Model ----
(***************************************************************************)
(* Marketplace SDK: the API client (client.ts) and the Vue composable      *)
(* (useMarketplace) layered on it.                                         *)
(*                                                                         *)
(* JavaScript values are modelled as records of one shape (JsVal), text as *)
(* sequences of one-character strings, optional values as sequences of     *)
(* length 0 (undefined) or 1.                                              *)
(***************************************************************************)
EXTENDS Bags, FiniteSets, Integers, Sequences, TLC

VARIABLES
  client,            \* MarketplaceClient fields: baseUrl, platform, appVersion, fetchFn
  options,           \* the options object the client was constructed with
  ambient,           \* globalThis.fetch as it is now ("undefined" when absent)
  ops,               \* bag of calls in flight, each with its position (pc)
  settled,           \* state of the wrapped operation's promise that settled most recently
  issued,            \* number of wrapped operations started so far
  isLoading,         \* useMarketplace: isLoading.value
  error,             \* useMarketplace: error.value (<<>> is null)
  extensions,        \* useMarketplace: extensions.value
  extensionsTotal,   \* useMarketplace: extensionsTotal.value
  currentExtension,  \* useMarketplace: currentExtension.value
  categories         \* useMarketplace: categories.value

clientVars == <<client, options, ambient>>
wrapperVars == <<isLoading, error, extensions, extensionsTotal, currentExtension, categories>>
vars == <<client, options, ambient, ops, settled, issued, isLoading, error,
          extensions, extensionsTotal, currentExtension, categories>>

\* ------------------------------------------------------------------------
\* Bounds
\* ------------------------------------------------------------------------
MaxInFlight == 2     \* wrapped operations in flight at once
MaxIssued == 2       \* wrapped operations started in one behaviour

\* ------------------------------------------------------------------------
\* Text
\* ------------------------------------------------------------------------
LoneSurrogate == "<U+D800>"

RECURSIVE Concat(_)
Concat(pieces) ==
  IF pieces = <<>> THEN "" ELSE Head(pieces) \o Concat(Tail(pieces))

RECURSIVE Join(_, _)
Join(pieces, sep) ==
  IF pieces = <<>> THEN ""
  ELSE IF Len(pieces) = 1 THEN pieces[1]
  ELSE pieces[1] \o sep \o Join(Tail(pieces), sep)

\* U+0060, which a string literal cannot hold.
GraveAccent == "<U+0060>"

\* The printable ASCII characters, U+0020 to U+007E, in code order.
AsciiPrintable ==
  << " ", "!", "\"", "#", "$", "%", "&", "'", "(", ")", "*", "+", ",", "-",
     ".", "/", "0", "1", "2", "3", "4", "5", "6", "7", "8", "9", ":", ";",
     "<", "=", ">", "?", "@", "A", "B", "C", "D", "E", "F", "G", "H", "I",
     "J", "K", "L", "M", "N", "O", "P", "Q", "R", "S", "T", "U", "V", "W",
     "X", "Y", "Z", "[", "\\", "]", "^", "_", GraveAccent, "a", "b", "c", "d", "e",
     "f", "g", "h", "i", "j", "k", "l", "m", "n", "o", "p", "q", "r", "s",
     "t", "u", "v", "w", "x", "y", "z", "{", "|", "}", "~" >>

AlphaNumeric ==
  { "0", "1", "2", "3", "4", "5", "6", "7", "8", "9", "A", "B", "C", "D",
    "E", "F", "G", "H", "I", "J", "K", "L", "M", "N", "O", "P", "Q", "R",
    "S", "T", "U", "V", "W", "X", "Y", "Z", "a", "b", "c", "d", "e", "f",
    "g", "h", "i", "j", "k", "l", "m", "n", "o", "p", "q", "r", "s", "t",
    "u", "v", "w", "x", "y", "z" }

\* Characters outside ASCII, with their UTF-8 bytes.
EAcute == "<U+00E9>"
EuroSign == "<U+20AC>"
NonAscii == {EAcute, EuroSign}
Utf8Bytes(c) == IF c = EAcute THEN <<195, 169>> ELSE <<226, 130, 172>>

HexDigits == <<"0", "1", "2", "3", "4", "5", "6", "7", "8", "9",
               "A", "B", "C", "D", "E", "F">>
PercentByte(n) == "%" \o HexDigits[(n \div 16) + 1] \o HexDigits[(n % 16) + 1]

CodeOf(c) == 31 + (CHOOSE i \in 1..Len(AsciiPrintable) : AsciiPrintable[i] = c)

\* %XX of the UTF-8 bytes of a character.
PercentEncoded(c) ==
  IF c \in NonAscii
  THEN Concat([i \in 1..Len(Utf8Bytes(c)) |-> PercentByte(Utf8Bytes(c)[i])])
  ELSE PercentByte(CodeOf(c))

\* What encodeURIComponent leaves as it is: A-Z a-z 0-9 - _ . ! ~ * ' ( )
Unreserved == AlphaNumeric \cup {"-", "_", ".", "!", "~", "*", "'", "(", ")"}

\* encodeURIComponent, one character at a time.
PercentEncodeChar(c) == IF c \in Unreserved THEN c ELSE PercentEncoded(c)

\* encodeURIComponent throws URIError on a lone surrogate.
encodeURIComponentThrows(s) == \E i \in 1..Len(s) : s[i] = LoneSurrogate

encodeURIComponent(s) == Concat([i \in 1..Len(s) |-> PercentEncodeChar(s[i])])

\* What the application/x-www-form-urlencoded serialiser leaves as it is:
\* A-Z a-z 0-9 * - . _
FormUnreserved == AlphaNumeric \cup {"*", "-", ".", "_"}

\* application/x-www-form-urlencoded serialisation of URLSearchParams: a
\* space becomes "+", a lone surrogate is replaced by U+FFFD first.
FormEncodeChar(c) ==
  CASE c \in FormUnreserved -> c
    [] c = " " -> "+"
    [] c = LoneSurrogate -> "%EF%BF%BD"
    [] OTHER -> PercentEncoded(c)

FormEncode(s) == Concat([i \in 1..Len(s) |-> FormEncodeChar(s[i])])

\* ------------------------------------------------------------------------
\* JavaScript values
\* ------------------------------------------------------------------------
Undefined ==
  [kind |-> "undefined", error |-> <<>>, extensions |-> <<>>, pagination |-> <<>>,
   categories |-> <<>>, versions |-> <<>>, items |-> <<>>, num |-> 0]
Null == [Undefined EXCEPT !.kind = "null"]
EmptyObject == [Undefined EXCEPT !.kind = "object"]
Array(items) == [Undefined EXCEPT !.kind = "array", !.items = items]
Number(n) == [Undefined EXCEPT !.kind = "number", !.num = n]

Nullish(v) == v.kind \in {"undefined", "null"}

\* Errors and other thrown values: cls "string" is a thrown primitive.
Err(cls, message, statusCode) ==
  [cls |-> cls, message |-> message, statusCode |-> statusCode]
NoErr == Err("none", "", <<>>)
TypeError(message) == Err("TypeError", message, <<>>)
SyntaxError == Err("SyntaxError", "Unexpected token in JSON", <<>>)
URIError == Err("URIError", "URI malformed", <<>>)

MarketplaceApiError(message, statusCode) ==
  Err("MarketplaceApiError", message, <<statusCode>>)

\* A promise's state.
Pending == [state |-> "pending", value |-> Undefined, reason |-> NoErr]
Fulfilled(v) == [state |-> "fulfilled", value |-> v, reason |-> NoErr]
Rejected(e) == [state |-> "rejected", value |-> Undefined, reason |-> e]

\* Query parameter values: string | number | undefined.
PUndefined == [t |-> "undefined", s |-> <<>>, n |-> 0]
PString(chars) == [t |-> "string", s |-> chars, n |-> 0]
PNumber(n) == [t |-> "number", s |-> <<>>, n |-> n]
Param(key, value) == [key |-> key, value |-> value]

\* String(value), already form-encoded for the query string.
StringOf(v) == IF v.t = "number" THEN ToString(v.n) ELSE FormEncode(v.s)

\* JavaScript truthiness of an optional string.
Truthy(opt) == opt # <<>> /\ opt[1] # ""
TruthyParam(v) == CASE v.t = "undefined" -> FALSE
                    [] v.t = "string" -> v.s # <<>>
                    [] v.t = "number" -> v.n # 0

\* ------------------------------------------------------------------------
\* MarketplaceClient
\* ------------------------------------------------------------------------
DEFAULT_BASE_URL == "https://marketplace.haex.space"

NoFetch == "undefined"

constructor(opts, globalFetch) ==
  [baseUrl    |-> IF opts.baseUrl # <<>> THEN opts.baseUrl[1] ELSE DEFAULT_BASE_URL,
   platform   |-> opts.platform,
   appVersion |-> opts.appVersion,
   fetchFn    |-> IF opts.fetch # <<>> THEN opts.fetch[1] ELSE globalFetch]

\* Mutant: `if (value)` in place of `if (value !== undefined)`.
RECURSIVE searchParamsTruthy(_)
searchParamsTruthy(params) ==
  IF params = <<>> THEN <<>>
  ELSE LET p == Head(params)
           rest == searchParamsTruthy(Tail(params))
       IN IF TruthyParam(p.value)
          THEN <<[key |-> p.key, value |-> StringOf(p.value)]>> \o rest
          ELSE rest

\* The URLSearchParams entries appended for a params object (insertion order).
RECURSIVE searchParams(_)
searchParams(params) ==
  IF params = <<>> THEN <<>>
  ELSE LET p == Head(params)
           rest == searchParams(Tail(params))
       IN IF p.value.t # "undefined"
          THEN <<[key |-> p.key, value |-> StringOf(p.value)]>> \o rest
          ELSE rest

queryString(entries) ==
  Join([i \in 1..Len(entries) |-> entries[i].key \o "=" \o entries[i].value], "&")

\* The url as the pieces the code concatenates.
buildUrl(baseUrl, endpoint, params) ==
  IF params = <<>> THEN <<baseUrl, endpoint>>
  ELSE LET qs == queryString(searchParams(params[1]))
       IN IF qs # "" THEN <<baseUrl, endpoint, "?", qs>> ELSE <<baseUrl, endpoint>>

ContentType == "Content-Type" :> "application/json"

\* Mutant: the caller's headers are spread last and win.
buildHeadersCallerLast(cfg, callerHeaders) ==
  LET base == IF Truthy(cfg.platform)
              THEN ("X-Platform" :> cfg.platform[1]) @@ ContentType
              ELSE ContentType
      configured == IF Truthy(cfg.appVersion)
                    THEN ("X-App-Version" :> cfg.appVersion[1]) @@ base
                    ELSE base
  IN IF callerHeaders = <<>> THEN configured ELSE callerHeaders[1] @@ configured

buildHeaders(cfg, callerHeaders) ==
  LET merged == IF callerHeaders = <<>> THEN ContentType
                ELSE callerHeaders[1] @@ ContentType
      withPlatform == IF Truthy(cfg.platform)
                      THEN ("X-Platform" :> cfg.platform[1]) @@ merged
                      ELSE merged
  IN IF Truthy(cfg.appVersion)
     THEN ("X-App-Version" :> cfg.appVersion[1]) @@ withPlatform
     ELSE withPlatform

\* A transport response: status and body text (JSON text of `value`, or garbage).
Response(status, text, value) == [status |-> status, text |-> text, value |-> value]
NoResponse == Response(0, "none", Undefined)
Ok(response) == response.status >= 200 /\ response.status <= 299

HttpMessage(status) == "HTTP " \o ToString(status)

\* errorData: response.json().catch(() => ({ error: `HTTP ${status}` }))
errorData(response) ==
  IF response.text = "json" THEN response.value
  ELSE [EmptyObject EXCEPT !.error = <<HttpMessage(response.status)>>]

\* What the !response.ok branch throws.
apiError(response) ==
  LET data == errorData(response)
  IN IF Nullish(data) THEN TypeError("Cannot read properties of null (reading 'error')")
     ELSE IF Truthy(data.error) THEN MarketplaceApiError(data.error[1], response.status)
     ELSE MarketplaceApiError(HttpMessage(response.status), response.status)

\* return response.json()
decodeBody(response) ==
  IF response.text = "json" THEN Fulfilled(response.value) ELSE Rejected(SyntaxError)

\* ------------------------------------------------------------------------
\* Calls in flight
\* ------------------------------------------------------------------------
\* pc: "fetch"    awaiting this.fetchFn(url, ...)
\*     "errjson"  awaiting response.json().catch(...) on a non-ok response
\*     "json"     awaiting the returned response.json()
\*     "returned" the client's promise has settled; the wrapper's inner
\*                function has not resumed yet
\*     "fnDone"   the inner function has settled; withLoading has not resumed
\*     "finished" withLoading has run its catch and finally; the promise the
\*                wrapped operation handed to its caller has not settled yet
\*     "settled"  the promise handed to the caller has settled
\* response / rejection: what the transport's promise fulfilled / rejected with.
NewCall(wrapped, op, slug, params, version, callerHeaders) ==
  [wrapped |-> wrapped, op |-> op, slug |-> slug, params |-> params,
   version |-> version, callerHeaders |-> callerHeaders,
   ambientAtCall |-> ambient, fn |-> NoFetch, ncalls |-> 0,
   url |-> <<>>, query |-> <<>>, headers |-> ContentType,
   pc |-> "start", response |-> NoResponse, rejection |-> NoErr, result |-> Pending]

\* The client's promise settles: a direct caller sees it at once, the
\* wrapper's inner function resumes in a later microtask.
Return(call, result) ==
  [call EXCEPT !.result = result,
               !.pc = IF call.wrapped THEN "returned" ELSE "settled"]

\* request(), up to its first await: the url, the headers, the transport call.
request(call, endpoint, params, callerHeaders) ==
  LET built == [call EXCEPT !.url = buildUrl(client.baseUrl, endpoint, params),
                            !.query = IF params = <<>> THEN <<>>
                                      ELSE searchParams(params[1]),
                            !.headers = buildHeaders(client, callerHeaders)]
  IN IF client.fetchFn = NoFetch
     THEN Return(built, Rejected(TypeError("this.fetchFn is not a function")))
     ELSE [built EXCEPT !.fn = client.fetchFn, !.ncalls = call.ncalls + 1,
                        !.pc = "fetch"]

\* An endpoint with a path-embedded slug.
slugRequest(call, prefix, suffix, params) ==
  IF encodeURIComponentThrows(call.slug)
  THEN Return(call, Rejected(URIError))
  ELSE request(call, prefix \o encodeURIComponent(call.slug) \o suffix, params, <<>>)

clientListExtensions(call) == request(call, "/extensions", call.params, <<>>)
clientGetExtension(call) == slugRequest(call, "/extensions/", "", <<>>)
clientListCategories(call) == request(call, "/categories", <<>>, <<>>)
clientGetDownloadUrl(call) ==
  slugRequest(call, "/extensions/", "/download",
              IF TruthyParam(call.version)
              THEN << <<Param("version", call.version)>> >>
              ELSE <<>>)
clientListVersions(call) == slugRequest(call, "/extensions/", "/versions", <<>>)
clientListReviews(call) == slugRequest(call, "/extensions/", "/reviews", call.params)
clientHealth(call) == request(call, "/health", <<>>, <<>>)

Replace(old, new) == (ops (-) SetToBag({old})) (+) SetToBag({new})
InFlight == {c \in BagToSet(ops) : c.pc # "settled"}

\* A caller that awaits each call before making the next one.
Direct(call) ==
  /\ InFlight = {}
  /\ ops' = SetToBag({call})
  /\ UNCHANGED <<clientVars, wrapperVars, settled, issued>>

\* request(endpoint, options) called with caller-supplied fetch options.
clientRequest(call) == request(call, "/health", call.params, call.callerHeaders)

\* ------------------------------------------------------------------------
\* The transport and the rest of request()
\* ------------------------------------------------------------------------
\* The environment replaces, installs or removes globalThis.fetch.
ReplaceAmbient(f) ==
  /\ f # ambient
  /\ ambient' = f
  /\ UNCHANGED <<client, options, ops, settled, issued, wrapperVars>>

\* The transport's promise fulfils with a response.
TransportResolve(call, response) ==
  /\ call.pc = "fetch"
  /\ ops' = Replace(call, [call EXCEPT !.response = response,
                                       !.pc = IF Ok(response) THEN "json" ELSE "errjson"])
  /\ UNCHANGED <<clientVars, settled, issued, wrapperVars>>

\* Mutant: a rejected transport call is retried once.
TransportRejectRetry(call, reason) ==
  /\ call.pc = "fetch"
  /\ ops' = Replace(call,
       IF call.ncalls < 2 THEN [call EXCEPT !.ncalls = call.ncalls + 1]
       ELSE Return([call EXCEPT !.rejection = reason], Rejected(reason)))
  /\ UNCHANGED <<clientVars, settled, issued, wrapperVars>>

\* Mutant: a transport rejection is caught and wrapped in a MarketplaceApiError.
TransportRejectWrapped(call, reason) ==
  /\ call.pc = "fetch"
  /\ ops' = Replace(call, Return([call EXCEPT !.rejection = reason],
                                 Rejected(MarketplaceApiError(reason.message, 0))))
  /\ UNCHANGED <<clientVars, settled, issued, wrapperVars>>

\* The transport's promise rejects: the await throws out of request().
TransportReject(call, reason) ==
  /\ call.pc = "fetch"
  /\ ops' = Replace(call, Return([call EXCEPT !.rejection = reason], Rejected(reason)))
  /\ UNCHANGED <<clientVars, settled, issued, wrapperVars>>

\* Non-ok response: the body has been read (or failed to decode); throw.
ErrorBody(call) ==
  /\ call.pc = "errjson"
  /\ ops' = Replace(call, Return(call, Rejected(apiError(call.response))))
  /\ UNCHANGED <<clientVars, settled, issued, wrapperVars>>

\* Ok response: the promise of response.json() settles the call.
SuccessBody(call) ==
  /\ call.pc = "json"
  /\ ops' = Replace(call, Return(call, decodeBody(call.response)))
  /\ UNCHANGED <<clientVars, settled, issued, wrapperVars>>

\* ------------------------------------------------------------------------
\* Public operations of the client, called directly
\* ------------------------------------------------------------------------
listExtensions(params) ==
  Direct(clientListExtensions(NewCall(FALSE, "listExtensions", <<>>, params, PUndefined, <<>>)))
getExtension(slug) ==
  Direct(clientGetExtension(NewCall(FALSE, "getExtension", slug, <<>>, PUndefined, <<>>)))
listCategories ==
  Direct(clientListCategories(NewCall(FALSE, "listCategories", <<>>, <<>>, PUndefined, <<>>)))
getDownloadUrl(slug, version) ==
  Direct(clientGetDownloadUrl(NewCall(FALSE, "getDownloadUrl", slug, <<>>, version, <<>>)))
listVersions(slug) ==
  Direct(clientListVersions(NewCall(FALSE, "listVersions", slug, <<>>, PUndefined, <<>>)))
listReviews(slug, params) ==
  Direct(clientListReviews(NewCall(FALSE, "listReviews", slug, params, PUndefined, <<>>)))
health ==
  Direct(clientHealth(NewCall(FALSE, "health", <<>>, <<>>, PUndefined, <<>>)))
rawRequest(params, callerHeaders) ==
  Direct(clientRequest(NewCall(FALSE, "request", <<>>, params, PUndefined, callerHeaders)))

\* ------------------------------------------------------------------------
\* useMarketplace
\* ------------------------------------------------------------------------
\* Property reads on a decoded response.
ListField(opt) == IF opt = <<>> THEN Undefined ELSE Array(opt[1])
TotalOf(pagination) == IF pagination = <<>> THEN Undefined ELSE Number(pagination[1])

\* error.value = e instanceof Error ? e : new Error(String(e))
asError(e) == IF e.cls = "string" THEN Err("Error", e.message, <<>>) ELSE e

\* withLoading, up to its await: the flags, then fn() up to the transport call.
withLoading(call) ==
  /\ BagCardinality(ops) < MaxInFlight
  /\ issued < MaxIssued
  /\ issued' = issued + 1
  /\ isLoading' = TRUE
  /\ error' = <<>>
  /\ ops' = ops (+) SetToBag({call})
  /\ UNCHANGED <<clientVars, settled, extensions, extensionsTotal,
                 currentExtension, categories>>

fetchExtensions(params) ==
  withLoading(clientListExtensions(NewCall(TRUE, "fetchExtensions", <<>>, params, PUndefined, <<>>)))
fetchExtension(slug) ==
  withLoading(clientGetExtension(NewCall(TRUE, "fetchExtension", slug, <<>>, PUndefined, <<>>)))
fetchCategories ==
  withLoading(clientListCategories(NewCall(TRUE, "fetchCategories", <<>>, <<>>, PUndefined, <<>>)))
wrappedGetDownloadUrl(slug, version) ==
  withLoading(clientGetDownloadUrl(NewCall(TRUE, "getDownloadUrl", slug, <<>>, version, <<>>)))
fetchVersions(slug) ==
  withLoading(clientListVersions(NewCall(TRUE, "fetchVersions", slug, <<>>, PUndefined, <<>>)))

FnDone(call, result) == Replace(call, [call EXCEPT !.result = result, !.pc = "fnDone"])

\* The inner function of fetchExtensions resumes after client.listExtensions.
fetchExtensionsResume(call) ==
  LET response == call.result.value IN
  /\ call.pc = "returned" /\ call.op = "fetchExtensions"
  /\ IF call.result.state = "rejected"
     THEN /\ ops' = FnDone(call, call.result)
          /\ UNCHANGED <<extensions, extensionsTotal>>
     ELSE IF Nullish(response)
     THEN /\ ops' = FnDone(call, Rejected(TypeError("Cannot read properties of null (reading 'extensions')")))
          /\ UNCHANGED <<extensions, extensionsTotal>>
     ELSE IF response.pagination = <<>>
     THEN /\ extensions' = ListField(response.extensions)
          /\ ops' = FnDone(call, Rejected(TypeError("Cannot read properties of undefined (reading 'total')")))
          /\ UNCHANGED extensionsTotal
     ELSE /\ extensions' = ListField(response.extensions)
          /\ extensionsTotal' = TotalOf(response.pagination[1])
          /\ ops' = FnDone(call, call.result)
  /\ UNCHANGED <<clientVars, settled, issued, isLoading, error, currentExtension, categories>>

fetchExtensionResume(call) ==
  /\ call.pc = "returned" /\ call.op = "fetchExtension"
  /\ currentExtension' = IF call.result.state = "rejected" THEN currentExtension
                         ELSE call.result.value
  /\ ops' = FnDone(call, call.result)
  /\ UNCHANGED <<clientVars, settled, issued, isLoading, error, extensions,
                 extensionsTotal, categories>>

fetchCategoriesResume(call) ==
  LET response == call.result.value IN
  /\ call.pc = "returned" /\ call.op = "fetchCategories"
  /\ IF call.result.state = "rejected"
     THEN /\ ops' = FnDone(call, call.result)
          /\ UNCHANGED categories
     ELSE IF Nullish(response)
     THEN /\ ops' = FnDone(call, Rejected(TypeError("Cannot read properties of null (reading 'categories')")))
          /\ UNCHANGED categories
     ELSE /\ categories' = ListField(response.categories)
          /\ ops' = FnDone(call, Fulfilled(ListField(response.categories)))
  /\ UNCHANGED <<clientVars, settled, issued, isLoading, error, extensions,
                 extensionsTotal, currentExtension>>

\* The inner function returned the client's promise: it settles as that one.
getDownloadUrlResume(call) ==
  /\ call.pc = "returned" /\ call.op = "getDownloadUrl"
  /\ ops' = FnDone(call, call.result)
  /\ UNCHANGED <<clientVars, settled, issued, wrapperVars>>

fetchVersionsResume(call) ==
  LET response == call.result.value IN
  /\ call.pc = "returned" /\ call.op = "fetchVersions"
  /\ ops' = FnDone(call,
       IF call.result.state = "rejected" THEN call.result
       ELSE IF Nullish(response)
       THEN Rejected(TypeError("Cannot read properties of null (reading 'versions')"))
       ELSE Fulfilled(ListField(response.versions)))
  /\ UNCHANGED <<clientVars, settled, issued, wrapperVars>>

\* Mutant: a successful operation clears the error slot when it completes.
withLoadingResumeClearing(call) ==
  /\ call.pc = "fnDone"
  /\ error' = IF call.result.state = "rejected"
              THEN <<asError(call.result.reason)>> ELSE <<>>
  /\ isLoading' = FALSE
  /\ ops' = Replace(call, [call EXCEPT !.pc = "finished"])
  /\ UNCHANGED <<clientVars, settled, issued, extensions, extensionsTotal,
                 currentExtension, categories>>

\* Mutant: the catch block records the error and does not re-throw it.
withLoadingResumeSwallowing(call) ==
  /\ call.pc = "fnDone"
  /\ error' = IF call.result.state = "rejected"
              THEN <<asError(call.result.reason)>> ELSE error
  /\ isLoading' = FALSE
  /\ ops' = Replace(call,
       [call EXCEPT !.pc = "finished",
                    !.result = IF call.result.state = "rejected"
                               THEN Fulfilled(Undefined) ELSE call.result])
  /\ UNCHANGED <<clientVars, settled, issued, extensions, extensionsTotal,
                 currentExtension, categories>>

\* withLoading resumes: catch (record, rethrow), finally. Its own promise
\* settles; the promise of the async function that returned it follows later.
withLoadingResume(call) ==
  /\ call.pc = "fnDone"
  /\ error' = IF call.result.state = "rejected"
              THEN <<asError(call.result.reason)>> ELSE error
  /\ isLoading' = FALSE
  /\ ops' = Replace(call, [call EXCEPT !.pc = "finished"])
  /\ UNCHANGED <<clientVars, settled, issued, extensions, extensionsTotal,
                 currentExtension, categories>>

\* The promise of the wrapped operation (an async function that returned
\* withLoading's promise) settles as that one did, in a later microtask:
\* other callbacks may have run in between.
wrappedSettle(call) ==
  /\ call.pc = "finished"
  /\ settled' = call.result
  /\ ops' = ops (-) SetToBag({call})
  /\ UNCHANGED <<clientVars, issued, wrapperVars>>

clearError ==
  /\ error' = <<>>
  /\ UNCHANGED <<clientVars, ops, settled, issued, isLoading, extensions,
                 extensionsTotal, currentExtension, categories>>

\* ------------------------------------------------------------------------
\* Inputs
\* ------------------------------------------------------------------------
Options(baseUrl, platform, appVersion, fetch) ==
  [baseUrl |-> baseUrl, platform |-> platform, appVersion |-> appVersion, fetch |-> fetch]

ClientOptions ==
  { Options(<<>>, <<>>, <<>>, <<>>),
    Options(<<>>, <<"linux">>, <<"2.0.0">>, <<"stubFetch">>),
    Options(<<>>, <<"">>, <<"2.0.0">>, <<"stubFetch">>),
    Options(<<>>, <<"linux">>, <<"">>, <<"stubFetch">>),
    Options(<<"http://localhost:3000">>, <<>>, <<"2.0.0">>, <<"stubFetch">>),
    Options(<<>>, <<"linux">>, <<>>, <<>>) }

WrapperOptions ==
  { Options(<<>>, <<"linux">>, <<"2.0.0">>, <<"stubFetch">>),
    Options(<<>>, <<>>, <<>>, <<>>) }

AmbientFetches == {NoFetch, "nativeFetch", "polyfillFetch"}

Slugs == { <<"f", "o", "o">>, <<"a", "/", "=", "%", "+", EAcute>>, <<"f", LoneSurrogate>> }
WrapperSlugs == { <<"f", "o", "o">>, <<"f", LoneSurrogate>> }

Versions == { PUndefined, PString(<<>>), PString(<<"1", ".", "2", ".", "3">>) }
WrapperVersions == { PUndefined }

ListExtensionsParams ==
  { <<>>,
    << <<>> >>,
    << <<Param("page", PNumber(0))>> >>,
    << <<Param("search", PString(<<>>))>> >>,
    << <<Param("search", PUndefined)>> >>,
    << <<Param("page", PNumber(1)), Param("category", PUndefined),
         Param("limit", PNumber(20))>> >>,
    << <<Param("search", PString(<<"a", " ", "=", "+", "%", "~", EuroSign>>)),
         Param("sort", PString(<<"f">>))>> >> }

WrapperListExtensionsParams == { << <<Param("page", PNumber(1))>> >> }

ListReviewsParams ==
  { <<>>,
    << <<Param("page", PNumber(0)), Param("limit", PUndefined)>> >>,
    << <<Param("page", PNumber(2)), Param("limit", PNumber(3))>> >> }

CallerHeaders ==
  { <<>>,
    << "X-Platform" :> "spoofed" >>,
    << ("X-App-Version" :> "0.0.0") @@ ("Accept" :> "text/plain") >>,
    << "Content-Type" :> "text/plain" >> }

ListResponse(items, total) ==
  [EmptyObject EXCEPT !.extensions = <<items>>, !.pagination = << <<total>> >>,
                      !.categories = <<items>>, !.versions = <<items>>]
PageOne == ListResponse(<<"ext-a">>, 1)
PageTwo == ListResponse(<<"ext-b", "ext-c">>, 2)
NoPagination == [EmptyObject EXCEPT !.extensions = << <<"ext-z">> >>]
ErrorNotFound == [EmptyObject EXCEPT !.error = <<"not found">>]
ErrorEmpty == [EmptyObject EXCEPT !.error = <<"">>]

ClientResponses ==
  { Response(st, "json", v) : st \in {200, 404, 500},
                              v \in {Null, EmptyObject, ErrorNotFound, ErrorEmpty, PageOne} }
  \cup { Response(st, "garbage", Undefined) : st \in {200, 404, 500} }

WrapperResponses ==
  { Response(200, "json", v) : v \in {PageOne, PageTwo, NoPagination, Null} }
  \cup { Response(404, "json", ErrorNotFound) }

TransportFailures == { TypeError("fetch failed"), Err("string", "boom", <<>>) }

\* ------------------------------------------------------------------------
\* Specifications
\* ------------------------------------------------------------------------
Constructed(opts, globalFetch) ==
  /\ options = opts
  /\ ambient = globalFetch
  /\ client = constructor(opts, globalFetch)
  /\ ops = EmptyBag
  /\ settled = Pending
  /\ issued = 0
  /\ isLoading = FALSE
  /\ error = <<>>
  /\ extensions = Array(<<>>)
  /\ extensionsTotal = Number(0)
  /\ currentExtension = Null
  /\ categories = Array(<<>>)

\* A client, called directly by a caller that awaits each call.
Init == \E opts \in ClientOptions, f \in {NoFetch, "nativeFetch"} : Constructed(opts, f)

Next ==
  \/ \E p \in ListExtensionsParams : listExtensions(p)
  \/ \E s \in Slugs : getExtension(s)
  \/ listCategories
  \/ \E s \in Slugs, v \in Versions : getDownloadUrl(s, v)
  \/ \E s \in Slugs : listVersions(s)
  \/ \E s \in Slugs, p \in ListReviewsParams : listReviews(s, p)
  \/ health
  \/ \E p \in ListReviewsParams, h \in CallerHeaders : rawRequest(p, h)
  \/ \E f \in AmbientFetches : ReplaceAmbient(f)
  \/ \E c \in BagToSet(ops), r \in ClientResponses : TransportResolve(c, r)
  \/ \E c \in BagToSet(ops), e \in TransportFailures : TransportReject(c, e)
  \/ \E c \in BagToSet(ops) : ErrorBody(c)
  \/ \E c \in BagToSet(ops) : SuccessBody(c)

Spec == Init /\ [][Next]_vars

\* useMarketplace, with wrapped operations started concurrently.
WrapperInit == \E opts \in WrapperOptions : Constructed(opts, NoFetch)

WrapperNext ==
  \/ \E p \in WrapperListExtensionsParams : fetchExtensions(p)
  \/ \E s \in WrapperSlugs : fetchExtension(s)
  \/ fetchCategories
  \/ \E s \in WrapperSlugs, v \in WrapperVersions : wrappedGetDownloadUrl(s, v)
  \/ \E s \in WrapperSlugs : fetchVersions(s)
  \/ clearError
  \/ \E c \in BagToSet(ops), r \in WrapperResponses : TransportResolve(c, r)
  \/ \E c \in BagToSet(ops), e \in TransportFailures : TransportReject(c, e)
  \/ \E c \in BagToSet(ops) : ErrorBody(c)
  \/ \E c \in BagToSet(ops) : SuccessBody(c)
  \/ \E c \in BagToSet(ops) : fetchExtensionsResume(c)
  \/ \E c \in BagToSet(ops) : fetchExtensionResume(c)
  \/ \E c \in BagToSet(ops) : fetchCategoriesResume(c)
  \/ \E c \in BagToSet(ops) : getDownloadUrlResume(c)
  \/ \E c \in BagToSet(ops) : fetchVersionsResume(c)
  \/ \E c \in BagToSet(ops) : withLoadingResume(c)
  \/ \E c \in BagToSet(ops) : wrappedSettle(c)

WrapperSpec == WrapperInit /\ [][WrapperNext]_vars

\* ------------------------------------------------------------------------
\* Properties of the client (Spec)
\* ------------------------------------------------------------------------
Calls == BagToSet(ops)
Sent == {c \in Calls : c.ncalls > 0}
Finished == {c \in Calls : c.pc = "settled"}
Keys(entries) == {entries[i].key : i \in 1..Len(entries)}
HasHeader(c, name, value) == name \in DOMAIN c.headers /\ c.headers[name] = value

\* C1 (as claimed): every call whose response has a non-success status rejects
\* with a MarketplaceApiError carrying that status; its message is
\* `HTTP <status>` when the body is not JSON and the body's `error` string when
\* the body has a non-empty one -- for every body, JSON null included.
C1_NonOkRejectsWithApiError ==
  \A c \in Finished :
    (c.response # NoResponse /\ ~Ok(c.response)) =>
      /\ c.result.state = "rejected"
      /\ c.result.reason.cls = "MarketplaceApiError"
      /\ c.result.reason.statusCode = <<c.response.status>>
      /\ (c.response.text # "json" =>
            c.result.reason.message = HttpMessage(c.response.status))
      /\ (c.response.text = "json" /\ Truthy(c.response.value.error) =>
            c.result.reason.message = c.response.value.error[1])

\* C2 (as claimed): with platform p and appVersion v configured as any strings,
\* every request handed to the transport carries X-Platform = p and
\* X-App-Version = v.
C2_ConfiguredHeadersAlwaysSent ==
  \A c \in Sent :
    /\ (options.platform # <<>> => HasHeader(c, "X-Platform", options.platform[1]))
    /\ (options.appVersion # <<>> => HasHeader(c, "X-App-Version", options.appVersion[1]))

\* What the caller's headers alone would put under `name`.
CallerHeader(c, name, value) ==
  /\ c.callerHeaders # <<>>
  /\ name \in DOMAIN c.callerHeaders[1]
  /\ c.callerHeaders[1][name] = value
CallerHasHeader(c, name) == c.callerHeaders # <<>> /\ name \in DOMAIN c.callerHeaders[1]

IdentityHeader(c, name, configured) ==
  IF configured # <<>> /\ configured[1] # ""
  THEN HasHeader(c, name, configured[1])
  ELSE IF CallerHasHeader(c, name)
  THEN HasHeader(c, name, c.callerHeaders[1][name])
  ELSE name \notin DOMAIN c.headers

\* C2 (amended): with platform p and appVersion v configured as non-empty
\* strings, every request handed to the transport carries X-Platform = p and
\* X-App-Version = v whatever the caller supplied; a value left out or
\* configured as the empty string sets no header, so a caller-supplied one
\* passes through. Content-Type is the caller's if supplied, else
\* application/json.
C2_NonEmptyConfiguredHeadersSent ==
  \A c \in Sent :
    /\ IdentityHeader(c, "X-Platform", options.platform)
    /\ IdentityHeader(c, "X-App-Version", options.appVersion)
    /\ IF CallerHasHeader(c, "Content-Type")
       THEN HasHeader(c, "Content-Type", c.callerHeaders[1]["Content-Type"])
       ELSE HasHeader(c, "Content-Type", "application/json")

\* A request whose caller tried to override a configured identity header.
C2_Witness ==
  \E c \in Sent :
    /\ options.platform = <<"linux">>
    /\ CallerHeader(c, "X-Platform", "spoofed")
    /\ HasHeader(c, "X-Platform", "linux")

DefinedKeys(params) ==
  IF params = <<>> THEN {}
  ELSE {params[1][i].key : i \in {j \in 1..Len(params[1]) : params[1][j].value.t # "undefined"}}

\* The query parameters are exactly `keys`, and the `?` is there iff any is.
QueryIs(c, keys) ==
  /\ Keys(c.query) = keys
  /\ Len(c.query) = Cardinality(keys)
  /\ IF keys = {} THEN Len(c.url) = 2
     ELSE Len(c.url) = 4 /\ c.url[3] = "?" /\ c.url[4] = queryString(c.query)

TakesParams(c) == c.op \in {"listExtensions", "listReviews", "request"}

ValueOf(params, key) ==
  LET i == CHOOSE j \in 1..Len(params[1]) : params[1][j].key = key
  IN params[1][i].value

\* The text a defined parameter value is sent as.
SentAs(c, key, value) ==
  \E i \in 1..Len(c.query) :
    /\ c.query[i].key = key
    /\ c.query[i].value = IF value.t = "number" THEN ToString(value.n)
                          ELSE FormEncode(value.s)

\* C3 (as claimed): a parameter is in the query string iff its value is not
\* undefined, also for getDownloadUrl's version (so version "" is sent).
C3_DefinedParamsSent ==
  \A c \in Sent :
    /\ TakesParams(c) =>
         /\ QueryIs(c, DefinedKeys(c.params))
         /\ \A k \in DefinedKeys(c.params) : SentAs(c, k, ValueOf(c.params, k))
    /\ c.op = "getDownloadUrl" =>
         /\ QueryIs(c, IF c.version.t # "undefined" THEN {"version"} ELSE {})
         /\ c.version.t # "undefined" => SentAs(c, "version", c.version)

\* C3 (amended): for listExtensions, listReviews and request, a parameter is in
\* the query string iff its value is not undefined (0 and "" are sent);
\* getDownloadUrl sends `version` iff the version is a non-empty string; the
\* `?` is appended only when at least one parameter is sent.
C3_DefinedParamsSentVersionNonEmpty ==
  \A c \in Sent :
    /\ TakesParams(c) =>
         /\ QueryIs(c, DefinedKeys(c.params))
         /\ \A k \in DefinedKeys(c.params) : SentAs(c, k, ValueOf(c.params, k))
    /\ c.op = "getDownloadUrl" =>
         /\ QueryIs(c, IF c.version.t = "string" /\ c.version.s # <<>>
                       THEN {"version"} ELSE {})
         /\ (c.version.t = "string" /\ c.version.s # <<>>) =>
              SentAs(c, "version", c.version)
    /\ ~TakesParams(c) /\ c.op # "getDownloadUrl" => QueryIs(c, {})

\* A request with a falsy defined parameter sent and an undefined one omitted.
C3_Witness ==
  \E c \in Sent :
    /\ c.op = "listReviews"
    /\ c.params = << <<Param("page", PNumber(0)), Param("limit", PUndefined)>> >>
    /\ Len(c.url) = 4 /\ c.url[4] = "page=0"

\* The transport a client built without one should use for call c.
Encodable(c) == ~encodeURIComponentThrows(c.slug)

\* C4 (as claimed): a client constructed without a transport uses, for each
\* request, globalThis.fetch as it is when the request is made: the request
\* fails for lack of a transport only if none exists then, and otherwise
\* invokes the one that exists then.
C4_AmbientTransportResolvedAtCallTime ==
  \A c \in Calls :
    (options.fetch = <<>> /\ Encodable(c)) =>
      IF c.ambientAtCall = NoFetch
      THEN c.ncalls = 0 /\ c.result.state = "rejected"
      ELSE c.ncalls = 1 /\ c.fn = c.ambientAtCall

\* C5 (as claimed): every call that has settled invoked the transport exactly
\* once.
C5_ExactlyOneTransportCall ==
  \A c \in Finished : c.ncalls = 1

\* C5 (amended): a call invokes the transport exactly once before it settles,
\* whether it ends in success, an API error, a transport error or a decode
\* error, unless it is rejected before the transport is reached -- the client
\* holds no transport function (TypeError) or the slug is not encodable
\* (URIError) -- in which case it settles without any invocation; no call
\* invokes the transport more than once.
C5_OneTransportCallUnlessRejectedBefore ==
  \A c \in Calls :
    IF client.fetchFn = NoFetch \/ ~Encodable(c)
    THEN /\ c.ncalls = 0
         /\ c.pc = "settled"
         /\ c.result.state = "rejected"
         /\ c.result.reason.cls = IF Encodable(c) THEN "TypeError" ELSE "URIError"
         /\ c.response = NoResponse /\ c.rejection = NoErr
    ELSE /\ c.ncalls = 1
         /\ c.fn = client.fetchFn
         /\ c.pc = "settled" => (c.response # NoResponse \/ c.rejection # NoErr)

\* Calls that settled after one invocation, one for each way of ending.
C5_Witness ==
  \E c \in Finished :
    /\ c.ncalls = 1
    /\ c.rejection # NoErr
    /\ c.result.state = "rejected"

\* C6: a transport rejection rejects the call with that same value; a
\* success-status body that does not decode rejects the call with the decode
\* error; a success-status body that decodes resolves the call to the decoded
\* value; a MarketplaceApiError comes only from a non-success status.
C6_FailuresPropagateUnchanged ==
  \A c \in Finished :
    /\ c.rejection # NoErr => c.result = Rejected(c.rejection)
    /\ (c.response # NoResponse /\ Ok(c.response) /\ c.response.text # "json") =>
         /\ c.result.state = "rejected"
         /\ c.result.reason.cls = "SyntaxError"
    /\ (c.response # NoResponse /\ Ok(c.response) /\ c.response.text = "json") =>
         c.result = Fulfilled(c.response.value)
    /\ (c.result.state = "rejected" /\ c.result.reason.cls = "MarketplaceApiError") =>
         (c.response # NoResponse /\ ~Ok(c.response))
    /\ c.result.state # "pending"

\* A transport rejection with a thrown primitive reached the caller as is.
C6_Witness ==
  \E c \in Finished :
    /\ c.rejection = Err("string", "boom", <<>>)
    /\ c.result = Rejected(Err("string", "boom", <<>>))

\* ------------------------------------------------------------------------
\* Properties of useMarketplace (WrapperSpec)
\* ------------------------------------------------------------------------
\* C7 (as claimed): isLoading is true exactly when a wrapped operation is in
\* flight, an operation counting as in flight until its withLoading has run
\* its finally block.
C7_LoadingIffInFlight == isLoading = (\E c \in BagToSet(ops) : c.pc # "finished")

OnlyErrorChanges ==
  UNCHANGED <<clientVars, ops, settled, issued, isLoading, extensions,
              extensionsTotal, currentExtension, categories>>

\* C8 (as claimed): a recorded error goes back to null only by clearError().
C8_ErrorClearedOnlyByClearError ==
  [][(error # <<>> /\ error' = <<>>) => OnlyErrorChanges]_vars

\* C8 (amended): a recorded error goes back to null only by clearError() or
\* as the first step of starting a wrapped operation, never by an operation
\* completing.
C8_ErrorClearedByClearErrorOrStart ==
  [][(error # <<>> /\ error' = <<>>) =>
        \/ OnlyErrorChanges
        \/ /\ issued' = issued + 1
           /\ BagCardinality(ops') = BagCardinality(ops) + 1
           /\ UNCHANGED <<clientVars, settled, extensions, extensionsTotal,
                          currentExtension, categories>>]_vars

\* An error recorded by one operation is still there after another one,
\* started before it, has completed successfully.
C8_Witness ==
  /\ error # <<>>
  /\ settled.state = "fulfilled"
  /\ ops = EmptyBag

\* The call c moves to c2 in this step.
Moves(c, c2) == ops' = (ops (-) SetToBag({c})) (+) SetToBag({c2})

\* C9: a rejection of the client call passes the post-processing unchanged;
\* when withLoading resumes for an operation whose inner function threw (in
\* the client call or in the post-processing), the error slot is set to the
\* thrown value (wrapped in an Error if it is not one) and the operation keeps
\* that rejection; the operation's promise settles only after that step, and
\* as the inner function did: rejected with the thrown value, or fulfilled
\* with the inner function's value.
C9_FailuresRecordedThenRethrown ==
  [][/\ \A c \in BagToSet(ops) :
          (c.pc = "returned" /\ c.result.state = "rejected") =>
             \/ CopiesIn(c, ops') >= CopiesIn(c, ops)
             \/ Moves(c, [c EXCEPT !.pc = "fnDone"])
     /\ \A c \in BagToSet(ops) :
          c.pc = "fnDone" =>
             \/ CopiesIn(c, ops') >= CopiesIn(c, ops)
             \/ /\ Moves(c, [c EXCEPT !.pc = "finished"])
                /\ c.result.state # "pending"
                /\ c.result.state = "rejected" =>
                     /\ error' # <<>>
                     /\ IF c.result.reason.cls = "string"
                        THEN error'[1] = Err("Error", c.result.reason.message, <<>>)
                        ELSE error'[1] = c.result.reason
     /\ BagCardinality(ops') < BagCardinality(ops) =>
          \E c \in BagToSet(ops) :
            /\ ops' = ops (-) SetToBag({c})
            /\ c.pc = "finished"
            /\ settled' = c.result]_vars

\* A thrown primitive was recorded as an Error and re-thrown as is.
C9_Witness ==
  /\ settled = Rejected(Err("string", "boom", <<>>))
  /\ error = <<Err("Error", "boom", <<>>)>>


ListResults ==
  {r.value : r \in {x \in WrapperResponses :
                      x.text = "json" /\ ~Nullish(x.value) /\ x.value.pagination # <<>>}}

\* C10 (as claimed): extensions and extensionsTotal are both initial or both
\* taken from one listExtensions response.
C10_ListAndTotalBelongTogether ==
  \/ extensions = Array(<<>>) /\ extensionsTotal = Number(0)
  \/ \E v \in ListResults :
       /\ extensions = ListField(v.extensions)
       /\ extensionsTotal = TotalOf(v.pagination[1])

====
